---- MODULE Spec2Model ----
(***************************************************************************)
(* zbusctl: the typed argument encoder (src/src/lib.rs, build_body) and    *)
(* the call command that uses it (src/src/main.rs, run_call_command).      *)
(*                                                                         *)
(* A string is a sequence of one-character strings, so that splitting,     *)
(* trimming and parsing are computed character by character as the code    *)
(* computes them.                                                          *)
(***************************************************************************)
EXTENDS Integers, Sequences, FiniteSets, TLC

VARIABLES
    pc,          \* position in run_call_command / build_body
    has_args,    \* CallArgs.args is Some(..)
    args,        \* the argument tokens (CallArgs.args, build_body's args)
    idx,         \* number of tokens the for loop of build_body has consumed
    builder,     \* StructureBuilder: the fields added so far
    conversions, \* history: the conversions attempted for each token examined
    ret,         \* what build_body returned (or that it panicked)
    body,        \* run_call_command's local `body`
    sent,        \* the bodies handed to Connection::call_method, in order
    outcome      \* what run_call_command returned

vars == <<pc, has_args, args, idx, builder, conversions, ret, body, sent, outcome>>

----------------------------------------------------------------------------
(* Characters and strings                                                  *)

Digits == {"0", "1", "2", "3", "4", "5", "6", "7", "8", "9"}

\* char::is_whitespace, on the characters of the model's alphabet
IsWhitespace(c) == c \in {" ", "\t", "\n", "\r"}

Tail_from(s, i) == SubSeq(s, i, Len(s))

\* position of the first occurrence of c in s, 0 when there is none
IndexOf(s, c) ==
    IF \E i \in 1..Len(s) : s[i] = c
    THEN CHOOSE i \in 1..Len(s) : s[i] = c /\ \A j \in 1..(i - 1) : s[j] # c
    ELSE 0

\* str::splitn(n, c): at most n parts, the last holding the rest unsplit
RECURSIVE splitn(_, _, _)
splitn(s, n, c) ==
    IF n <= 1 \/ IndexOf(s, c) = 0
    THEN <<s>>
    ELSE <<SubSeq(s, 1, IndexOf(s, c) - 1)>>
             \o splitn(Tail_from(s, IndexOf(s, c) + 1), n - 1, c)

\* str::split(c): one part more than there are occurrences of c
RECURSIVE split(_, _)
split(s, c) ==
    IF IndexOf(s, c) = 0
    THEN <<s>>
    ELSE <<SubSeq(s, 1, IndexOf(s, c) - 1)>>
             \o split(Tail_from(s, IndexOf(s, c) + 1), c)

\* str::trim: leading and trailing whitespace removed
trim(s) ==
    LET keep == {i \in 1..Len(s) : ~IsWhitespace(s[i])}
    IN  IF keep = {} THEN <<>>
        ELSE SubSeq(s, CHOOSE i \in keep : \A j \in keep : i <= j,
                       CHOOSE i \in keep : \A j \in keep : i >= j)

AllDigits(s) == \A i \in 1..Len(s) : s[i] \in Digits

\* a numeral without its leading zeros ("0" for zero)
RECURSIVE StripZeros(_)
StripZeros(s) ==
    IF Len(s) > 1 /\ s[1] = "0" THEN StripZeros(Tail(s)) ELSE s

DigitOrder == <<"0", "1", "2", "3", "4", "5", "6", "7", "8", "9">>
DigitVal(c) == (CHOOSE i \in 1..10 : DigitOrder[i] = c) - 1

\* a <= b for two numerals without leading zeros
RECURSIVE NumLeq(_, _)
NumLeq(a, b) ==
    IF Len(a) # Len(b) THEN Len(a) < Len(b)
    ELSE IF a = <<>> THEN TRUE
    ELSE IF a[1] # b[1] THEN DigitVal(a[1]) < DigitVal(b[1])
    ELSE NumLeq(Tail(a), Tail(b))

----------------------------------------------------------------------------
(* Conversions.  Each returns [ok, text, exp]: whether the text converts,  *)
(* and the value in canonical form (exp is the decimal exponent of a       *)
(* double, 0 for every other kind).                                        *)

Converted(t, e) == [ok |-> TRUE, text |-> t, exp |-> e]
NotConverted == [ok |-> FALSE, text |-> <<>>, exp |-> 0]

\* the digits of an integer, once the sign is taken off: all decimal, and
\* the magnitude within the range of the type
IntDigits(neg, digits, max) ==
    IF ~AllDigits(digits) \/ ~NumLeq(StripZeros(digits), max) THEN NotConverted
    ELSE IF neg /\ StripZeros(digits) # <<"0">>
    THEN Converted(<<"-">> \o StripZeros(digits), 0)
    ELSE Converted(StripZeros(digits), 0)

IntSigned(neg, v, maxpos, maxneg) ==
    IntDigits(neg, IF neg \/ v[1] = "+" THEN Tail(v) ELSE v,
              IF neg THEN maxneg ELSE maxpos)

\* <integer>::from_str: an optional sign ('-' only for a signed type), then
\* decimal digits, within the range of the type
IntFromStr(signed, maxpos, maxneg, v) ==
    IF v = <<>> \/ v = <<"+">> \/ v = <<"-">> THEN NotConverted
    ELSE IntSigned(signed /\ v[1] = "-", v, maxpos, maxneg)

I32_MAX == <<"2", "1", "4", "7", "4", "8", "3", "6", "4", "7">>
I32_MINMAG == <<"2", "1", "4", "7", "4", "8", "3", "6", "4", "8">>
U32_MAX == <<"4", "2", "9", "4", "9", "6", "7", "2", "9", "5">>
I64_MAX == <<"9", "2", "2", "3", "3", "7", "2", "0", "3", "6", "8", "5", "4", "7", "7", "5", "8", "0", "7">>
I64_MINMAG == <<"9", "2", "2", "3", "3", "7", "2", "0", "3", "6", "8", "5", "4", "7", "7", "5", "8", "0", "8">>
U64_MAX == <<"1", "8", "4", "4", "6", "7", "4", "4", "0", "7", "3", "7", "0", "9", "5", "5", "1", "6", "1", "5">>
I16_MAX == <<"3", "2", "7", "6", "7">>
I16_MINMAG == <<"3", "2", "7", "6", "8">>
U16_MAX == <<"6", "5", "5", "3", "5">>
U8_MAX == <<"2", "5", "5">>

IsSignedType(T) == T \in {"i32", "i64", "i16"}

\* T::MAX, as a numeral
MaxOf(T) ==
    CASE T = "i32" -> I32_MAX [] T = "u32" -> U32_MAX
      [] T = "i64" -> I64_MAX [] T = "u64" -> U64_MAX
      [] T = "i16" -> I16_MAX [] T = "u16" -> U16_MAX
      [] OTHER -> U8_MAX

\* the magnitude of T::MIN, as a numeral
MinMagnitudeOf(T) ==
    CASE T = "i32" -> I32_MINMAG [] T = "i64" -> I64_MINMAG
      [] T = "i16" -> I16_MINMAG [] OTHER -> <<"0">>

\* bool::from_str: exactly "true" or "false"
BoolFromStr(v) ==
    IF v = <<"t", "r", "u", "e">> \/ v = <<"f", "a", "l", "s", "e">> THEN Converted(v, 0) ELSE NotConverted

ToLower(c) ==
    CASE c = "E" -> "e" [] c = "I" -> "i" [] c = "N" -> "n" [] c = "F" -> "f"
      [] c = "T" -> "t" [] c = "Y" -> "y" [] c = "A" -> "a" [] OTHER -> c

RECURSIVE NumVal(_)
NumVal(s) ==
    IF s = <<>> THEN 0
    ELSE 10 * NumVal(SubSeq(s, 1, Len(s) - 1)) + DigitVal(s[Len(s)])

RECURSIVE StripTrailingZeros(_)
StripTrailingZeros(s) ==
    IF Len(s) > 1 /\ s[Len(s)] = "0"
    THEN StripTrailingZeros(SubSeq(s, 1, Len(s) - 1)) ELSE s

\* the value of a decimal: sign, the significant digits, and the decimal
\* exponent that goes with them
F64Value(sgn, all, digits, e) ==
    IF digits = <<"0">> THEN Converted(sgn \o digits, 0)
    ELSE Converted(sgn \o digits, e + (Len(all) - Len(digits)))

\* Number ::= (Digit+ | Digit+ '.' Digit* | Digit* '.' Digit+), times 10^e
F64Digits(sgn, ipart, fpart, e) ==
    IF ~(AllDigits(ipart) /\ AllDigits(fpart) /\ ipart \o fpart # <<>>)
    THEN NotConverted
    ELSE F64Value(sgn, StripZeros(ipart \o fpart),
                  StripTrailingZeros(StripZeros(ipart \o fpart)), e - Len(fpart))

F64Mantissa(sgn, mant, dot, e) ==
    F64Digits(sgn, IF dot = 0 THEN mant ELSE SubSeq(mant, 1, dot - 1),
              IF dot = 0 THEN <<>> ELSE Tail_from(mant, dot + 1), e)

\* Exp ::= 'e' Sign? Digit+
F64Exponent(sgn, mant, neg, edigits) ==
    IF edigits = <<>> \/ ~AllDigits(edigits) THEN NotConverted
    ELSE F64Mantissa(sgn, mant, IndexOf(mant, "."),
                     IF neg THEN 0 - NumVal(edigits) ELSE NumVal(edigits))

F64Number(sgn, rest, epos) ==
    IF epos = 0 THEN F64Mantissa(sgn, rest, IndexOf(rest, "."), 0)
    ELSE IF epos < Len(rest) /\ rest[epos + 1] \in {"+", "-"}
    THEN F64Exponent(sgn, SubSeq(rest, 1, epos - 1), rest[epos + 1] = "-",
                     Tail_from(rest, epos + 2))
    ELSE F64Exponent(sgn, SubSeq(rest, 1, epos - 1), FALSE, Tail_from(rest, epos + 1))

F64Unsigned(sgn, rest) ==
    IF rest \in {<<"i", "n", "f">>, <<"i", "n", "f", "i", "n", "i", "t", "y">>} THEN Converted(sgn \o <<"i", "n", "f">>, 0)
    ELSE IF rest = <<"n", "a", "n">> THEN Converted(<<"n", "a", "n">>, 0)
    ELSE F64Number(sgn, rest, IndexOf(rest, "e"))

F64Lowered(low) ==
    IF low # <<>> /\ low[1] \in {"+", "-"}
    THEN F64Unsigned(IF low[1] = "-" THEN <<"-">> ELSE <<>>, Tail(low))
    ELSE F64Unsigned(<<>>, low)

\* f64::from_str:  Sign? ('inf' | 'infinity' | 'nan' | Number), lowercased,
\*   Number ::= (Digit+ | Digit+ '.' Digit* | Digit* '.' Digit+) Exp?
\* The value is kept as an exact decimal: significant digits and exponent.
F64FromStr(v) == F64Lowered([i \in 1..Len(v) |-> ToLower(v[i])])

\* String::from_str / to_string: any text, kept as it is
StringFromStr(v) == Converted(v, 0)

PathChars ==
    Digits \cup {"_"}
    \cup {"a", "b", "c", "d", "e", "f", "g", "h", "i", "j", "k", "l", "m",
          "n", "o", "p", "q", "r", "s", "t", "u", "v", "w", "x", "y", "z"}
    \cup {"A", "B", "C", "D", "E", "F", "G", "H", "I", "J", "K", "L", "M",
          "N", "O", "P", "Q", "R", "S", "T", "U", "V", "W", "X", "Y", "Z"}

\* zvariant::ObjectPath::try_from: "/" or '/'-separated non-empty elements
\* of [A-Za-z0-9_], starting with '/' and not ending with one
ObjectPathTryFrom(v) ==
    IF v = <<"/">> THEN Converted(v, 0)
    ELSE IF /\ v # <<>>
            /\ v[1] = "/"
            /\ v[Len(v)] # "/"
            /\ \A i \in 1..Len(v) : v[i] \in PathChars \cup {"/"}
            /\ \A i \in 1..(Len(v) - 1) : ~(v[i] = "/" /\ v[i + 1] = "/")
         THEN Converted(v, 0)
         ELSE NotConverted

SigBasic == {"y", "b", "n", "q", "i", "u", "x", "t", "d", "s", "o", "g", "h"}

\* SigOne: the position after the one complete type that starts at s[i], 0
\* when there is none: a basic type, a variant, an array of a complete type,
\* a dict entry array a{<basic><type>}, or a structure (<type>+).
\* SigMany: the position after the longest run of complete types that
\* starts at s[i], 0 when a type in the run is malformed.
RECURSIVE SigOne(_, _)
RECURSIVE SigMany(_, _)

SigClosed(s, j, close, least) ==
    IF j # 0 /\ j >= least /\ j <= Len(s) /\ s[j] = close THEN j + 1 ELSE 0

SigOne(s, i) ==
    IF i > Len(s) THEN 0
    ELSE IF s[i] \in SigBasic \cup {"v"} THEN i + 1
    ELSE IF s[i] = "a" /\ i + 1 <= Len(s) /\ s[i + 1] = "{"
         THEN IF i + 2 <= Len(s) /\ s[i + 2] \in SigBasic
              THEN SigClosed(s, SigOne(s, i + 3), "}", 0)
              ELSE 0
    ELSE IF s[i] = "a" THEN SigOne(s, i + 1)
    ELSE IF s[i] = "(" THEN SigClosed(s, SigMany(s, i + 1), ")", i + 2)
    ELSE 0

SigNext(s, j) == IF j = 0 THEN 0 ELSE SigMany(s, j)

SigMany(s, i) ==
    IF i > Len(s) \/ s[i] = ")" THEN i ELSE SigNext(s, SigOne(s, i))

\* zvariant::Signature::try_from / from_str: empty (the unit signature) or a
\* run of complete types
SignatureTryFrom(v) ==
    IF SigMany(v, 1) = Len(v) + 1 THEN Converted(v, 0) ELSE NotConverted

----------------------------------------------------------------------------
(* Values, errors and results                                              *)

\* a scalar field: the kind (the Rust type) and the converted value
ScalarValue(kind, c) ==
    [kind |-> kind, text |-> c.text, exp |-> c.exp, elems |-> <<>>, entries |-> <<>>]

\* Vec<T> as a field: the elements in order
ArrayValue(elems) ==
    [kind |-> "Array", text |-> <<>>, exp |-> 0, elems |-> elems, entries |-> <<>>]

\* HashMap<K, V> as a field: a function from the keys to their values
DictValue(entries) ==
    [kind |-> "Dict", text |-> <<>>, exp |-> 0, elems |-> <<>>, entries |-> entries]

NoValue == [kind |-> "", text |-> <<>>, exp |-> 0, elems |-> <<>>, entries |-> <<>>]

\* zbus::Error::Failure(format!(..)): which message, and the texts put in it
Failure(what, a, b) == [what |-> what, type |-> "", a |-> a, b |-> b]
NoError == Failure("", <<>>, <<>>)

\* from_str's "Invalid <type_name::<T>()> '<v>': <cause>"
InvalidValue(T, v) == [what |-> "Invalid value", type |-> T, a |-> v, b |-> <<>>]

\* the result of turning one piece of text into a field; conv counts the
\* conversions attempted on the way
Ok(val, conv) == [tag |-> "ok", val |-> val, err |-> NoError, conv |-> conv]
Err(err, conv) == [tag |-> "err", val |-> NoValue, err |-> err, conv |-> conv]
Panic(conv) == [tag |-> "panic", val |-> NoValue, err |-> NoError, conv |-> conv]

\* what build_body returned: Ok(structure of the fields), Err(error), or
\* nothing because it panicked; "none" while it has not finished
BodyOk(fields) == [tag |-> "ok", fields |-> fields, err |-> NoError]
BodyErr(err) == [tag |-> "err", fields |-> <<>>, err |-> err]
BodyPanic == [tag |-> "panic", fields |-> <<>>, err |-> NoError]
NoReturn == [tag |-> "none", fields |-> <<>>, err |-> NoError]

\* Option<Structure>: the local `body` of run_call_command
Some(fields) == [some |-> TRUE, fields |-> fields]
None == [some |-> FALSE, fields |-> <<>>]

----------------------------------------------------------------------------
(* src/src/lib.rs                                                          *)

\* T::from_str(v) for the type named T
FromStr(T, v) ==
    CASE T \in {"i32", "u32", "i64", "u64", "i16", "u16", "u8"} ->
            IntFromStr(IsSignedType(T), MaxOf(T), MinMagnitudeOf(T), v)
      [] T = "f64" -> F64FromStr(v)
      [] T = "bool" -> BoolFromStr(v)
      [] T = "String" -> StringFromStr(v)
      [] T = "Signature" -> SignatureTryFrom(v)
      [] T = "ObjectPath" -> ObjectPathTryFrom(v)
      [] OTHER -> NotConverted

\* Result::map_err: the value of a conversion c, or the error err
map_err(T, c, err) == IF c.ok THEN Ok(ScalarValue(T, c), 1) ELSE Err(err, 1)

\* from_str::<T>(v): the value, or "Invalid <T> '<v>': <cause>"
from_str(T, v) == map_err(T, FromStr(T, v), InvalidValue(T, v))

\* as insert, but keeping the value a key already has (entry().or_insert)
insert_keep_first(dict, k, v) ==
    [x \in (DOMAIN dict) \cup {k} |-> IF x \in DOMAIN dict THEN dict[x] ELSE v]

\* HashMap::insert: a later value for a key replaces the earlier one
insert(dict, k, v) ==
    [x \in (DOMAIN dict) \cup {k} |-> IF x = k THEN v ELSE dict[x]]

\* build_dict: the loop `for chunk in pairs.chunks(2)`, from the chunk that
\* starts at pairs[i], with the map and the conversions made so far
RECURSIVE build_dict_from(_, _, _, _, _, _)

\* let v = from_str::<V>(&chunk[1])?; dict.insert(k, v);
build_dict_value(K, V, pairs, i, dict, conv, k, v) ==
    IF v.tag # "ok" THEN Err(v.err, conv + 2)
    ELSE build_dict_from(K, V, pairs, i + 2, insert(dict, k.val, v.val), conv + 2)

\* let k = from_str::<K>(chunk[0])?; then chunk[1], which is out of bounds
\* in a chunk of one
build_dict_key(K, V, pairs, i, dict, conv, k) ==
    IF k.tag # "ok" THEN Err(k.err, conv + 1)
    ELSE IF i + 1 > Len(pairs) THEN Panic(conv + 1)
    ELSE build_dict_value(K, V, pairs, i, dict, conv, k, from_str(V, pairs[i + 1]))

build_dict_from(K, V, pairs, i, dict, conv) ==
    IF i > Len(pairs) THEN Ok(DictValue(dict), conv)
    ELSE build_dict_key(K, V, pairs, i, dict, conv, from_str(K, pairs[i]))

\* build_dict::<K, V>(pairs)
build_dict(K, V, pairs) == build_dict_from(K, V, pairs, 1, <<>>, 0)

\* the Rust type a type tag is converted to by from_str::<T>
RustType(type_name) ==
    CASE type_name = <<"i", "n", "t", "3", "2">> -> "i32"
      [] type_name = <<"u", "i", "n", "t", "3", "2">> -> "u32"
      [] type_name = <<"i", "n", "t", "6", "4">> -> "i64"
      [] type_name = <<"u", "i", "n", "t", "6", "4">> -> "u64"
      [] type_name = <<"i", "n", "t", "1", "6">> -> "i16"
      [] type_name = <<"u", "i", "n", "t", "1", "6">> -> "u16"
      [] type_name = <<"b", "y", "t", "e">> -> "u8"
      [] type_name = <<"d", "o", "u", "b", "l", "e">> -> "f64"
      [] type_name \in {<<"b", "o", "o", "l", "e", "a", "n">>, <<"b", "o", "o", "l">>} -> "bool"
      [] type_name = <<"s", "t", "r", "i", "n", "g">> -> "String"
      [] type_name = <<"s", "i", "g", "n", "a", "t", "u", "r", "e">> -> "Signature"
      [] type_name = <<"o", "b", "j", "p", "a", "t", "h">> -> "ObjectPath"
      [] OTHER -> ""

\* the arms of `match type_name` for the basic types
basic_type(type_name, value) ==
    CASE type_name = <<"s", "i", "g", "n", "a", "t", "u", "r", "e">> ->
            map_err("Signature", SignatureTryFrom(value),
                    Failure("Invalid signature", value, <<>>))
      [] type_name = <<"o", "b", "j", "p", "a", "t", "h">> ->
            map_err("ObjectPath", ObjectPathTryFrom(value),
                    Failure("Invalid object path", value, <<>>))
      [] type_name = <<"s", "t", "r", "i", "n", "g">> -> Ok(ScalarValue("String", StringFromStr(value)), 1)
      [] RustType(type_name) # "" -> from_str(RustType(type_name), value)
      [] OTHER -> Err(Failure("Unsupported type", type_name, <<>>), 0)

\* as array_item, without the trim
array_item_untrimmed(v) == v

\* the text an array element is converted from: v.trim()
array_item(v) == trim(v)

\* the closures mapped over the values of an array, by element type
array_element(element_type, v) ==
    CASE element_type = <<"s", "t", "r", "i", "n", "g">> -> Ok(ScalarValue("String", StringFromStr(v)), 1)
      [] element_type = <<"o", "b", "j", "p", "a", "t", "h">> ->
            map_err("ObjectPath", ObjectPathTryFrom(v),
                    Failure("Invalid object path array value", <<>>, <<>>))
      [] OTHER -> from_str(RustType(element_type), v)

\* as collect, but leaving out the elements that do not convert
collect_lossy(rs, bad) ==
    LET kept == {i \in DOMAIN rs : i \notin bad}
        nth(n) == CHOOSE i \in kept : Cardinality({j \in kept : j <= i}) = n
    IN  Ok(ArrayValue([n \in 1..Cardinality(kept) |-> rs[nth(n)].val]), Len(rs))

\* Iterator::collect::<Result<Vec<_>>>(): every element in order, or the
\* first error (the elements after it are not converted)
collect(rs, bad) ==
    IF bad = {}
    THEN Ok(ArrayValue([i \in DOMAIN rs |-> rs[i].val]), Len(rs))
    ELSE Err(rs[CHOOSE i \in bad : \A j \in bad : i <= j].err,
             CHOOSE i \in bad : \A j \in bad : i <= j)

\* values.iter().map(|v| ..(v.trim())).collect()
array_values(element_type, values) ==
    collect([i \in 1..Len(values) |-> array_element(element_type, array_item(values[i]))],
            {i \in 1..Len(values) :
                array_element(element_type, array_item(values[i])).tag # "ok"})

\* `match element_type`
array_elements(element_type, values) ==
    IF RustType(element_type) = ""
    THEN Err(Failure("Unsupported array element type", element_type, <<>>), 0)
    ELSE array_values(element_type, values)

\* the "array" arm
array_type(value, splits) ==
    IF Len(splits) # 2
    THEN Err(Failure("Invalid array type", value, <<>>), 0)
    ELSE array_elements(splits[1], split(splits[2], ","))

\* the (key_type, value_type) combinations of the "dict" arm, as the Rust
\* type of the values ("" when the combination is not supported)
dict_value_type(key_type, value_type) ==
    IF key_type # <<"s", "t", "r", "i", "n", "g">> \/ value_type \in {<<"s", "i", "g", "n", "a", "t", "u", "r", "e">>, <<"o", "b", "j", "p", "a", "t", "h">>} THEN ""
    ELSE RustType(value_type)

\* as dict_parts, without the check of the number of pairs
dict_parts_unchecked(value, key_type, value_type, pairs) ==
    IF dict_value_type(key_type, value_type) = ""
    THEN Err(Failure("Unsupported dictionary key-value type combination",
                     key_type, value_type), 0)
    ELSE build_dict("String", dict_value_type(key_type, value_type), pairs)

\* as dict_parts, with the types matched before the pairs are counted
dict_parts_types_first(value, key_type, value_type, pairs) ==
    IF dict_value_type(key_type, value_type) = ""
    THEN Err(Failure("Unsupported dictionary key-value type combination",
                     key_type, value_type), 0)
    ELSE IF Len(pairs) % 2 # 0
    THEN Err(Failure("Invalid dictionary type: expected even number of pairs",
                     value, <<>>), 0)
    ELSE build_dict("String", dict_value_type(key_type, value_type), pairs)

\* the "dict" arm, once the payload is split into its three parts
dict_parts(value, key_type, value_type, pairs) ==
    IF Len(pairs) % 2 # 0
    THEN Err(Failure("Invalid dictionary type: expected even number of pairs",
                     value, <<>>), 0)
    ELSE IF dict_value_type(key_type, value_type) = ""
    THEN Err(Failure("Unsupported dictionary key-value type combination",
                     key_type, value_type), 0)
    ELSE build_dict("String", dict_value_type(key_type, value_type), pairs)

\* the "dict" arm
dict_type(value, splits) ==
    IF Len(splits) # 3
    THEN Err(Failure("Invalid dictionary type: expected format", value, <<>>), 0)
    ELSE dict_parts(value, splits[1], splits[2], split(splits[3], ","))

\* as dict_splits, splitting at every ':'
dict_splits_all(value) == split(value, ":")

\* value.splitn(3, ':') of the "dict" arm
dict_splits(value) == splitn(value, 3, ":")

\* `match type_name`
match_type_name(type_name, value) ==
    IF type_name = <<"a", "r", "r", "a", "y">> THEN array_type(value, splitn(value, 2, ":"))
    ELSE IF type_name = <<"d", "i", "c", "t">> THEN dict_type(value, dict_splits(value))
    ELSE basic_type(type_name, value)

\* (splits[0], splits[1]): indexing past the end of splits panics
arg_splits(splits) ==
    IF Len(splits) < 2 THEN Panic(0) ELSE match_type_name(splits[1], splits[2])

\* the body of the for loop of build_body: the field for one argument
parse_arg(arg) == arg_splits(splitn(arg, 2, ":"))

\* as add_field, putting the field in front
add_field_front(fields, val) == <<val>> \o fields

\* StructureBuilder::add_field
add_field(fields, val) == Append(fields, val)

\* StructureBuilder::build: a structure has at least one field
build(fields) ==
    IF fields = <<>>
    THEN BodyErr(Failure("EmptyStructure", <<>>, <<>>))
    ELSE BodyOk(fields)

----------------------------------------------------------------------------
(* Inputs                                                                  *)

MaxArgs == 3        \* argument tokens on a command line
MaxItems == 3       \* comma-separated items of an array token
MaxPairItems == 4   \* comma-separated items of a dict token

RECURSIVE Join(_, _)
Join(items, sep) ==
    IF items = <<>> THEN <<>>
    ELSE IF Len(items) = 1 THEN items[1]
    ELSE items[1] \o <<sep>> \o Join(Tail(items), sep)

SeqsUpTo(S, n) == UNION {[1..k -> S] : k \in 1..n}

\* tokens of every shape: valid and invalid scalars, a payload with a ':',
\* an unknown tag, tokens without a ':', arrays and dicts
Tokens ==
    { <<"i", "n", "t", "3", "2", ":", "1">>, <<"s", "t", "r", "i", "n", "g", ":", "h", "i">>, <<"s", "t", "r", "i", "n", "g", ":", "a", ":", "b">>, <<"b", "o", "o", "l", "e", "a", "n", ":", "t", "r", "u", "e">>,
      <<"d", "o", "u", "b", "l", "e", ":", "1", ".", "5">>, <<"b", "y", "t", "e", ":", "2", "5", "6">>, <<"i", "n", "t", "3", "2", ":", "x">>, <<"f", "l", "o", "a", "t", ":", "1">>,
      <<"i", "n", "t", "3", "2">>, <<>>,
      <<"a", "r", "r", "a", "y", ":", "i", "n", "t", "3", "2", ":", "1", ",", " ", "2">>, <<"d", "i", "c", "t", ":", "s", "t", "r", "i", "n", "g", ":", "i", "n", "t", "3", "2", ":", "a", ",", "1">> }

ElementTypes ==
    { <<"i", "n", "t", "3", "2">>, <<"u", "i", "n", "t", "3", "2">>, <<"i", "n", "t", "6", "4">>, <<"u", "i", "n", "t", "6", "4">>, <<"i", "n", "t", "1", "6">>, <<"u", "i", "n", "t", "1", "6">>, <<"b", "y", "t", "e">>,
      <<"d", "o", "u", "b", "l", "e">>, <<"b", "o", "o", "l", "e", "a", "n">>, <<"b", "o", "o", "l">>, <<"s", "t", "r", "i", "n", "g">>, <<"o", "b", "j", "p", "a", "t", "h">>, <<"s", "i", "g", "n", "a", "t", "u", "r", "e">>, <<"f", "l", "o", "a", "t">> }

ArrayItems == { <<"1">>, <<" ", "2", " ">>, <<"x">>, <<"t", "r", "u", "e">>, <<" ", "/", "a">>, <<>> }

ArrayToken(element_type, items) ==
    <<"a", "r", "r", "a", "y", ":">> \o element_type \o <<":">> \o Join(items, ",")

ArrayTokens ==
    {ArrayToken(t, items) : t \in ElementTypes, items \in SeqsUpTo(ArrayItems, MaxItems)}
    \cup { <<"a", "r", "r", "a", "y", ":">>, <<"a", "r", "r", "a", "y", ":", "i", "n", "t", "3", "2">> }

KeyTypes == { <<"s", "t", "r", "i", "n", "g">>, <<"i", "n", "t", "3", "2">> }

ValueTypes ==
    { <<"i", "n", "t", "3", "2">>, <<"u", "i", "n", "t", "3", "2">>, <<"i", "n", "t", "6", "4">>, <<"u", "i", "n", "t", "6", "4">>, <<"i", "n", "t", "1", "6">>, <<"u", "i", "n", "t", "1", "6">>, <<"b", "y", "t", "e">>,
      <<"d", "o", "u", "b", "l", "e">>, <<"b", "o", "o", "l", "e", "a", "n">>, <<"b", "o", "o", "l">>, <<"s", "t", "r", "i", "n", "g">>, <<"o", "b", "j", "p", "a", "t", "h">>, <<"f", "l", "o", "a", "t">> }

DictKeys == { <<"a">>, <<" ", "a">>, <<"b", ":", "c">> }
DictValues == { <<"1">>, <<"2">>, <<" ", "2">>, <<"x">>, <<"1", ":", "2">> }

\* key, value, key, value, ...: n items, the last one a key when n is odd
DictItems(n) ==
    {items \in [1..n -> DictKeys \cup DictValues] :
        \A i \in 1..n : items[i] \in (IF i % 2 = 1 THEN DictKeys ELSE DictValues)}

DictToken(key_type, value_type, items) ==
    <<"d", "i", "c", "t", ":">> \o key_type \o <<":">> \o value_type \o <<":">> \o Join(items, ",")

DictTokens ==
    {DictToken(k, v, items) :
        k \in KeyTypes, v \in ValueTypes,
        items \in UNION {DictItems(n) : n \in 1..MaxPairItems}}
    \cup { <<"d", "i", "c", "t", ":">>, <<"d", "i", "c", "t", ":", "s", "t", "r", "i", "n", "g">>, <<"d", "i", "c", "t", ":", "s", "t", "r", "i", "n", "g", ":", "i", "n", "t", "3", "2">> }

----------------------------------------------------------------------------
(* src/src/main.rs: run_call_command, with build_body unfolded into the     *)
(* steps of its loop                                                       *)

Running == [tag |-> "running", err |-> NoError]
Returned(tag, err) == [tag |-> tag, err |-> err]

Init ==
    /\ pc = "connect"
    /\ has_args \in BOOLEAN
    /\ IF has_args
       THEN args \in SeqsUpTo(Tokens, MaxArgs)
                     \cup {<<t>> : t \in ArrayTokens \cup DictTokens}
       ELSE args = <<>>
    /\ idx = 0
    /\ builder = <<>>
    /\ conversions = <<>>
    /\ ret = NoReturn
    /\ body = None
    /\ sent = <<>>
    /\ outcome = Running

\* Connection::system() / Connection::session() succeeds
connect ==
    /\ pc = "connect"
    /\ pc' = "encode"
    /\ UNCHANGED <<has_args, args, idx, builder, conversions, ret, body, sent, outcome>>

\* Connection::system() / Connection::session() fails: `?` returns the error
connect_failed ==
    /\ pc = "connect"
    /\ pc' = "done"
    /\ outcome' = Returned("err", Failure("connection", <<>>, <<>>))
    /\ UNCHANGED <<has_args, args, idx, builder, conversions, ret, body, sent>>

\* args.args is None: body = None
no_args ==
    /\ pc = "encode"
    /\ ~has_args
    /\ body' = None
    /\ pc' = "call"
    /\ UNCHANGED <<has_args, args, idx, builder, conversions, ret, sent, outcome>>

\* the end of an iteration: the field r is added, or `?` returns its
\* error, or the panic unwinds out of run_call_command
arg_done(r) ==
    /\ idx' = idx + 1
    /\ conversions' = Append(conversions, r.conv)
    /\ CASE r.tag = "ok" ->
              /\ builder' = add_field(builder, r.val)
              /\ UNCHANGED <<pc, ret, outcome>>
         [] r.tag = "err" ->
              /\ ret' = BodyErr(r.err)
              /\ pc' = "returned"
              /\ UNCHANGED <<builder, outcome>>
         [] OTHER ->
              /\ ret' = BodyPanic
              /\ pc' = "done"
              /\ outcome' = Returned("panic", NoError)
              /\ UNCHANGED builder

\* build_body: one iteration of `for arg in args`
build_body_step ==
    /\ pc = "encode"
    /\ has_args
    /\ idx < Len(args)
    /\ arg_done(parse_arg(args[idx + 1]))
    /\ UNCHANGED <<has_args, args, body, sent>>

\* build_body: the loop is over, Ok(builder.build()?)
build_body_end ==
    /\ pc = "encode"
    /\ has_args
    /\ idx = Len(args)
    /\ ret' = build(builder)
    /\ pc' = "returned"
    /\ UNCHANGED <<has_args, args, idx, builder, conversions, body, sent, outcome>>

\* as encoded, but going on with the fields built so far when build_body
\* failed
encoded_unchecked ==
    /\ pc = "returned"
    /\ body' = Some(IF ret.tag = "ok" THEN ret.fields ELSE builder)
    /\ pc' = "call"
    /\ UNCHANGED <<has_args, args, idx, builder, conversions, ret, sent, outcome>>

\* Some(build_body(..)?): the body, or the error returned to the caller
encoded ==
    /\ pc = "returned"
    /\ IF ret.tag = "ok"
       THEN /\ body' = Some(ret.fields)
            /\ pc' = "call"
            /\ UNCHANGED outcome
       ELSE /\ outcome' = Returned("err", ret.err)
            /\ pc' = "done"
            /\ UNCHANGED body
    /\ UNCHANGED <<has_args, args, idx, builder, conversions, ret, sent>>

\* connection.call_method(.., body) returns the reply
call_method ==
    /\ pc = "call"
    /\ sent' = Append(sent, body)
    /\ pc' = "render"
    /\ UNCHANGED <<has_args, args, idx, builder, conversions, ret, body, outcome>>

\* connection.call_method(.., body) returns an error
call_method_failed ==
    /\ pc = "call"
    /\ sent' = Append(sent, body)
    /\ outcome' = Returned("err", Failure("call_method", <<>>, <<>>))
    /\ pc' = "done"
    /\ UNCHANGED <<has_args, args, idx, builder, conversions, ret, body>>

\* the reply is deserialized, converted to JSON and printed
render ==
    /\ pc = "render"
    /\ outcome' = Returned("ok", NoError)
    /\ pc' = "done"
    /\ UNCHANGED <<has_args, args, idx, builder, conversions, ret, body, sent>>

\* the reply cannot be deserialized or converted to JSON
render_failed ==
    /\ pc = "render"
    /\ outcome' = Returned("err", Failure("response", <<>>, <<>>))
    /\ pc' = "done"
    /\ UNCHANGED <<has_args, args, idx, builder, conversions, ret, body, sent>>

Next ==
    \/ connect
    \/ connect_failed
    \/ no_args
    \/ build_body_step
    \/ build_body_end
    \/ encoded
    \/ call_method
    \/ call_method_failed
    \/ render
    \/ render_failed

Spec == Init /\ [][Next]_vars

----------------------------------------------------------------------------
(* What the claims speak of: the parts of a token, read off its text, and  *)
(* what build_body made of each token it has examined                      *)

CountChar(s, c) == Cardinality({i \in 1..Len(s) : s[i] = c})

\* the position of the n-th c in s
NthPos(s, c, n) ==
    CHOOSE i \in 1..Len(s) : s[i] = c /\ CountChar(SubSeq(s, 1, i), c) = n

\* the j-th of the pieces of s that c separates
Piece(s, c, j) ==
    SubSeq(s, IF j = 1 THEN 1 ELSE NthPos(s, c, j - 1) + 1,
              IF j = CountChar(s, c) + 1 THEN Len(s) ELSE NthPos(s, c, j) - 1)

\* what follows the n-th c in s
AfterNth(s, c, n) == Tail_from(s, NthPos(s, c, n) + 1)

HasPrefix(s, p) == Len(s) >= Len(p) /\ SubSeq(s, 1, Len(p)) = p

RECURSIVE StripLeft(_)
StripLeft(s) == IF s # <<>> /\ IsWhitespace(s[1]) THEN StripLeft(Tail(s)) ELSE s

RECURSIVE StripRight(_)
StripRight(s) ==
    IF s # <<>> /\ IsWhitespace(s[Len(s)])
    THEN StripRight(SubSeq(s, 1, Len(s) - 1)) ELSE s

Strip(s) == StripRight(StripLeft(s))

\* "array:<elementType>:<v1>,..,<vn>"
ArrayPayload(t) == Tail_from(t, 7)
IsArrayToken(t) == HasPrefix(t, <<"a", "r", "r", "a", "y", ":">>) /\ CountChar(ArrayPayload(t), ":") >= 1
ElementTypeOf(t) == Piece(ArrayPayload(t), ":", 1)
ValuesListOf(t) == AfterNth(ArrayPayload(t), ":", 1)
ArrayCount(t) == CountChar(ValuesListOf(t), ",") + 1
ArrayItemOf(t, j) == Piece(ValuesListOf(t), ",", j)

SupportedElementTypes ==
    { <<"i", "n", "t", "3", "2">>, <<"u", "i", "n", "t", "3", "2">>, <<"i", "n", "t", "6", "4">>, <<"u", "i", "n", "t", "6", "4">>, <<"i", "n", "t", "1", "6">>, <<"u", "i", "n", "t", "1", "6">>, <<"b", "y", "t", "e">>,
      <<"d", "o", "u", "b", "l", "e">>, <<"b", "o", "o", "l", "e", "a", "n">>, <<"b", "o", "o", "l">>, <<"s", "t", "r", "i", "n", "g">>, <<"o", "b", "j", "p", "a", "t", "h">>, <<"s", "i", "g", "n", "a", "t", "u", "r", "e">> }

\* "dict:<keyType>:<valueType>:<k1>,<v1>,.."
DictPayload(t) == Tail_from(t, 6)
IsDictTag(t) == HasPrefix(t, <<"d", "i", "c", "t", ":">>)
DictColons(t) == CountChar(DictPayload(t), ":")
IsDictToken(t) == IsDictTag(t) /\ DictColons(t) >= 2
KeyTypeOf(t) == Piece(DictPayload(t), ":", 1)
ValueTypeOf(t) == Piece(DictPayload(t), ":", 2)
PairsListOf(t) == AfterNth(DictPayload(t), ":", 2)
PairCount(t) == CountChar(PairsListOf(t), ",") + 1
PairItemOf(t, j) == Piece(PairsListOf(t), ",", j)

SupportedDictValueTypes ==
    { <<"i", "n", "t", "3", "2">>, <<"u", "i", "n", "t", "3", "2">>, <<"i", "n", "t", "6", "4">>, <<"u", "i", "n", "t", "6", "4">>, <<"i", "n", "t", "1", "6">>, <<"u", "i", "n", "t", "1", "6">>, <<"b", "y", "t", "e">>,
      <<"d", "o", "u", "b", "l", "e">>, <<"b", "o", "o", "l", "e", "a", "n">>, <<"b", "o", "o", "l">>, <<"s", "t", "r", "i", "n", "g">> }

SupportedDictTypes(t) ==
    KeyTypeOf(t) = <<"s", "t", "r", "i", "n", "g">> /\ ValueTypeOf(t) \in SupportedDictValueTypes

\* the Scalar rule: text as a scalar of the type tagged K
ScalarOf(K, text) == parse_arg(K \o <<":">> \o text)

\* the key and the value of the j-th pair of a dict token, by the Scalar rule
KeyOf(t, j) == ScalarOf(<<"s", "t", "r", "i", "n", "g">>, PairItemOf(t, 2 * j - 1))
ValueOf(t, j) == ScalarOf(ValueTypeOf(t), PairItemOf(t, 2 * j))

DictItemsParse(t) ==
    \A j \in 1..(PairCount(t) \div 2) : ValueOf(t, j).tag = "ok"

\* the token with every comma-separated item stripped of its surrounding
\* whitespace
StrippedArray(t) ==
    <<"a", "r", "r", "a", "y", ":">> \o ElementTypeOf(t) \o <<":">>
        \o Join([j \in 1..ArrayCount(t) |-> Strip(ArrayItemOf(t, j))], ",")

StrippedDict(t) ==
    <<"d", "i", "c", "t", ":">> \o KeyTypeOf(t) \o <<":">> \o ValueTypeOf(t) \o <<":">>
        \o Join([j \in 1..PairCount(t) |-> Strip(PairItemOf(t, j))], ",")

Padded(item) == Strip(item) # item

\* build_body examined token i and added a field for it
TokenOk(i) == i <= idx /\ i <= Len(builder)

\* build_body examined token i and stopped at it
TokenFailed(i) == i = idx /\ i > Len(builder)

\* build_body stopped at token i and returned the error err
FailedWith(i, err) == TokenFailed(i) /\ ret = BodyErr(err)

InvalidDictSpec(t) ==
    Failure("Invalid dictionary type: expected format", DictPayload(t), <<>>)

OddPairCount(t) ==
    Failure("Invalid dictionary type: expected even number of pairs",
            DictPayload(t), <<>>)

UnsupportedDictTypes(t) ==
    Failure("Unsupported dictionary key-value type combination",
            KeyTypeOf(t), ValueTypeOf(t))

Valid(t) == parse_arg(t).tag = "ok"

----------------------------------------------------------------------------
(* The claims                                                              *)

\* C1: for a non-empty sequence of n tokens that are each valid on their
\* own, build_body succeeds with exactly n fields, field i being the value
\* parsed from token i: none reordered, dropped or duplicated.
C1_FieldsInOrder ==
    (has_args /\ \A i \in 1..Len(args) : Valid(args[i])) =>
        /\ ret.tag \in {"none", "ok"}
        /\ pc \in {"returned", "call", "render"} => ret.tag = "ok"
        /\ Len(builder) = idx
        /\ \A i \in 1..idx : builder[i] = parse_arg(args[i]).val
        /\ ret.tag = "ok" =>
              /\ Len(ret.fields) = Len(args)
              /\ \A i \in 1..Len(args) : ret.fields[i] = parse_arg(args[i]).val

C1_Witness ==
    /\ ret.tag = "ok"
    /\ Len(ret.fields) = 3
    /\ ret.fields[1].kind = "Array"
    /\ ret.fields[2].kind = "Dict"
    /\ ret.fields[3].kind = "String"

FirstInvalid ==
    CHOOSE i \in 1..Len(args) :
        ~Valid(args[i]) /\ \A j \in 1..(i - 1) : Valid(args[j])

\* C2: when some token is invalid, build_body returns the error of the
\* first invalid token and no body; the tokens after it are not examined
\* and the fields parsed before it are not exposed.
C2_FirstErrorReturned ==
    (has_args /\ (\E i \in 1..Len(args) : ~Valid(args[i])) /\ idx >= FirstInvalid) =>
        /\ ret = BodyErr(parse_arg(args[FirstInvalid]).err)
        /\ idx = FirstInvalid
        /\ body = None

\* C3: a token without a ':' makes build_body return an error value to its
\* caller, wherever the token stands; build_body does not crash on it.
C3_MissingColonIsError ==
    \A i \in 1..idx :
        CountChar(args[i], ":") = 0 => (ret.tag = "err" /\ outcome.tag # "panic")

\* C4: a dict token of a supported (keyType, valueType) whose pairs list has
\* k items: k odd fails with the odd-pair-count error; k even with every
\* item parsing succeeds with a dictionary built from the k/2 pairs.
C4_DictParity ==
    \A i \in 1..idx :
        (IsDictToken(args[i]) /\ SupportedDictTypes(args[i])) =>
            /\ PairCount(args[i]) % 2 = 1 => FailedWith(i, OddPairCount(args[i]))
            /\ (PairCount(args[i]) % 2 = 0 /\ DictItemsParse(args[i])) =>
                  /\ TokenOk(i)
                  /\ builder[i].kind = "Dict"
                  /\ DOMAIN builder[i].entries =
                        {KeyOf(args[i], j).val : j \in 1..(PairCount(args[i]) \div 2)}
                  /\ \A j \in 1..(PairCount(args[i]) \div 2) :
                        \E m \in 1..(PairCount(args[i]) \div 2) :
                            /\ KeyOf(args[i], m) = KeyOf(args[i], j)
                            /\ builder[i].entries[KeyOf(args[i], j).val]
                                   = ValueOf(args[i], m).val

C4_Witness ==
    \E i \in 1..idx :
        /\ IsDictToken(args[i])
        /\ SupportedDictTypes(args[i])
        /\ PairCount(args[i]) = 3
        /\ FailedWith(i, OddPairCount(args[i]))

\* C5 as stated: a dict token of an unsupported (keyType, valueType) fails
\* with the unsupported-dictionary-types error whatever its pairs list
\* holds, odd or even, and no key or value is parsed.
C5_UnsupportedWhateverPairs ==
    \A i \in 1..idx :
        (IsDictToken(args[i]) /\ ~SupportedDictTypes(args[i])) =>
            /\ FailedWith(i, UnsupportedDictTypes(args[i]))
            /\ conversions[i] = 0

\* C5 amended: a dict token of an unsupported (keyType, valueType) fails
\* with the unsupported-dictionary-types error when its pairs list has an
\* even number of items, and with the odd-pair-count error when it has an
\* odd number; either way no key or value is parsed.
C5_UnsupportedAfterParity ==
    \A i \in 1..idx :
        (IsDictToken(args[i]) /\ ~SupportedDictTypes(args[i])) =>
            /\ conversions[i] = 0
            /\ IF PairCount(args[i]) % 2 = 0
               THEN FailedWith(i, UnsupportedDictTypes(args[i]))
               ELSE FailedWith(i, OddPairCount(args[i]))

C5_Witness ==
    \E i \in 1..idx :
        /\ IsDictToken(args[i])
        /\ ~SupportedDictTypes(args[i])
        /\ PairCount(args[i]) = 2
        /\ FailedWith(i, UnsupportedDictTypes(args[i]))

\* C6 as stated: a dict payload that does not split on ':' into exactly
\* three parts, fewer or more, fails with the invalid-dictionary-spec error.
C6_ExactlyThreeParts ==
    \A i \in 1..idx :
        (IsDictTag(args[i]) /\ DictColons(args[i]) # 2) =>
            FailedWith(i, InvalidDictSpec(args[i]))

\* C6 amended: a dict payload is split at its first two ':' only.  With
\* fewer than two ':' it fails with the invalid-dictionary-spec error; any
\* further ':' stays in the pairs list, as part of a key or a value, and
\* never causes that error.
C6_SplitAtFirstTwoColons ==
    \A i \in 1..idx :
        IsDictTag(args[i]) =>
            /\ DictColons(args[i]) < 2 => FailedWith(i, InvalidDictSpec(args[i]))
            /\ DictColons(args[i]) >= 2 =>
                  /\ ~FailedWith(i, InvalidDictSpec(args[i]))
                  /\ (/\ SupportedDictTypes(args[i])
                      /\ PairCount(args[i]) % 2 = 0
                      /\ DictItemsParse(args[i])) =>
                        /\ TokenOk(i)
                        /\ \A j \in 1..(PairCount(args[i]) \div 2) :
                              \E key \in DOMAIN builder[i].entries :
                                  key.text = PairItemOf(args[i], 2 * j - 1)

C6_Witness ==
    \E i \in 1..idx :
        /\ IsDictTag(args[i])
        /\ DictColons(args[i]) > 2
        /\ TokenOk(i)
        /\ \E key \in DOMAIN builder[i].entries : CountChar(key.text, ":") > 0

\* token i came out as the result r: as a success with the same value, or
\* as a failure
SameAs(i, r) ==
    /\ TokenOk(i) <=> r.tag = "ok"
    /\ TokenOk(i) => builder[i] = r.val

\* C7 as stated: in an array token and in a dict token every item is
\* stripped of surrounding whitespace before it is parsed, so spaces around
\* an item change neither success or failure nor the value.
C7_ItemsTrimmed ==
    \A i \in 1..idx :
        /\ IsArrayToken(args[i]) => SameAs(i, parse_arg(StrippedArray(args[i])))
        /\ IsDictToken(args[i]) => SameAs(i, parse_arg(StrippedDict(args[i])))

\* C7 amended: in an array token every item is stripped of surrounding
\* whitespace before it is parsed, so spaces around an element change
\* neither success or failure nor the value.  The items of a dict token are
\* not stripped: a key keeps its surrounding whitespace, and a value of a
\* type other than string that has surrounding whitespace fails to parse.
C7_ArrayItemsTrimmed ==
    \A i \in 1..idx :
        /\ IsArrayToken(args[i]) => SameAs(i, parse_arg(StrippedArray(args[i])))
        /\ (/\ IsDictToken(args[i])
            /\ SupportedDictTypes(args[i])
            /\ PairCount(args[i]) % 2 = 0) =>
              /\ TokenOk(i) =>
                    \A j \in 1..(PairCount(args[i]) \div 2) :
                        \E key \in DOMAIN builder[i].entries :
                            key.text = PairItemOf(args[i], 2 * j - 1)
              /\ (/\ ValueTypeOf(args[i]) # <<"s", "t", "r", "i", "n", "g">>
                  /\ \E j \in 1..(PairCount(args[i]) \div 2) :
                        Padded(PairItemOf(args[i], 2 * j))) =>
                    (TokenFailed(i) /\ ret.tag = "err")

C7_Witness ==
    \E i \in 1..idx :
        /\ IsArrayToken(args[i])
        /\ ArrayCount(args[i]) >= 2
        /\ \E j \in 1..ArrayCount(args[i]) : Padded(ArrayItemOf(args[i], j))
        /\ TokenOk(i)
        /\ builder[i].elems[1].kind = "i32"

\* C8: an array token array:K:v1,..,vn of a supported element type K yields
\* one array field of exactly n elements, element i the parse of vi, in
\* input order, when every vi parses as K; when some vi does not, the whole
\* call fails and no array, not even its leading elements, is in any body.
C8_ArrayAllOrNothing ==
    \A i \in 1..idx :
        (IsArrayToken(args[i]) /\ ElementTypeOf(args[i]) \in SupportedElementTypes) =>
            IF \A j \in 1..ArrayCount(args[i]) :
                  ScalarOf(ElementTypeOf(args[i]), Strip(ArrayItemOf(args[i], j))).tag = "ok"
            THEN /\ TokenOk(i)
                 /\ builder[i].kind = "Array"
                 /\ Len(builder[i].elems) = ArrayCount(args[i])
                 /\ \A j \in 1..ArrayCount(args[i]) :
                       builder[i].elems[j] =
                           ScalarOf(ElementTypeOf(args[i]),
                                    Strip(ArrayItemOf(args[i], j))).val
            ELSE /\ TokenFailed(i)
                 /\ ret.tag = "err"
                 /\ ret.fields = <<>>
                 /\ body = None
                 /\ sent = <<>>

C8_Witness ==
    \E i \in 1..idx :
        /\ IsArrayToken(args[i])
        /\ ElementTypeOf(args[i]) = <<"i", "n", "t", "3", "2">>
        /\ ArrayCount(args[i]) = 3
        /\ ScalarOf(<<"i", "n", "t", "3", "2">>, Strip(ArrayItemOf(args[i], 1))).tag = "ok"
        /\ ScalarOf(<<"i", "n", "t", "3", "2">>, Strip(ArrayItemOf(args[i], 3))).tag # "ok"
        /\ TokenFailed(i)
        /\ pc = "done"

\* the body of all the arguments
FullBody == [i \in 1..Len(args) |-> parse_arg(args[i]).val]

\* C9: the call command connects, encodes, transmits, renders.  When
\* build_body fails, run_call_command returns that error and call_method is
\* never issued; no body built from a prefix of the arguments is ever sent.
C9_NoCallAfterFailedEncode ==
    /\ pc = "connect" => (idx = 0 /\ ret.tag = "none" /\ sent = <<>>)
    /\ ret.tag \in {"err", "panic"} =>
          (sent = <<>> /\ body = None /\ pc \in {"returned", "done"})
    /\ (ret.tag = "err" /\ pc = "done") => outcome = Returned("err", ret.err)
    /\ Len(sent) <= 1
    /\ \A k \in 1..Len(sent) :
          IF has_args
          THEN ret.tag = "ok" /\ sent[k] = Some(FullBody)
          ELSE sent[k] = None

C9_Witness ==
    /\ pc = "done"
    /\ ret.tag = "err"
    /\ Len(builder) = 2
    /\ outcome = Returned("err", ret.err)
    /\ sent = <<>>

\* the last pair of a dict token that has the key of pair j
LastPairOf(t, j) ==
    CHOOSE m \in 1..(PairCount(t) \div 2) :
        /\ PairItemOf(t, 2 * m - 1) = PairItemOf(t, 2 * j - 1)
        /\ \A n \in (m + 1)..(PairCount(t) \div 2) :
              PairItemOf(t, 2 * n - 1) # PairItemOf(t, 2 * j - 1)

HasDuplicateKey(t) ==
    \E j, m \in 1..(PairCount(t) \div 2) :
        j # m /\ PairItemOf(t, 2 * j - 1) = PairItemOf(t, 2 * m - 1)

\* C10: a valid dict token in which a key text occurs in more than one pair
\* succeeds, and the dictionary holds each distinct key once, mapped to the
\* value of the key's last occurrence.
C10_LastValueWins ==
    \A i \in 1..idx :
        (/\ IsDictToken(args[i])
         /\ SupportedDictTypes(args[i])
         /\ PairCount(args[i]) % 2 = 0
         /\ DictItemsParse(args[i])
         /\ HasDuplicateKey(args[i])) =>
            /\ TokenOk(i)
            /\ Cardinality(DOMAIN builder[i].entries) =
                  Cardinality({PairItemOf(args[i], 2 * j - 1) :
                                  j \in 1..(PairCount(args[i]) \div 2)})
            /\ \A j \in 1..(PairCount(args[i]) \div 2) :
                  builder[i].entries[KeyOf(args[i], j).val] =
                      ValueOf(args[i], LastPairOf(args[i], j)).val

C10_Witness ==
    \E i \in 1..idx :
        /\ IsDictToken(args[i])
        /\ ValueTypeOf(args[i]) = <<"i", "n", "t", "3", "2">>
        /\ PairCount(args[i]) = 4
        /\ PairItemOf(args[i], 1) = PairItemOf(args[i], 3)
        /\ PairItemOf(args[i], 2) # PairItemOf(args[i], 4)
        /\ TokenOk(i)
        /\ Cardinality(DOMAIN builder[i].entries) = 1

====
